---- MODULE Spec2Model ----
(***************************************************************************)
(* Model of scripts/compute_assembly_stats.py: the reference loader, the   *)
(* CIGAR parser, the per-record alignment walk, the coverage and running   *)
(* totals, the final statistics and the report.                            *)
(*                                                                         *)
(* Python strings are sequences of one-character strings, so that          *)
(* strip(), split(), upper(), int() and indexing are computed, not         *)
(* assumed.  A Python exception is a pair <<name, source line>> in the     *)
(* variable error, with pc = "error".                                      *)
(*                                                                         *)
(* Model of scripts/matam_assembly.py, the pipeline driver: the argument   *)
(* checking, the stage commands and their return codes, the files tagged   *)
(* as temporary and the exit of the program (specification DriverSpec).    *)
(***************************************************************************)
EXTENDS Integers, Sequences, FiniteSets, TLC

\* ------------------------------------------------------------------------
\* Bounds
\* ------------------------------------------------------------------------

\* Largest number of alignment records read from the sam file in one run.
MaxRecs == 3

\* ------------------------------------------------------------------------
\* Python string and list primitives
\* ------------------------------------------------------------------------

Whitespace == {" ", "\n", "\t"}

Digits == {"0", "1", "2", "3", "4", "5", "6", "7", "8", "9"}

\* str.isdigit() on one character
isdigit(c) == c \in Digits

DigitVal(c) ==
  CASE c = "0" -> 0 [] c = "1" -> 1 [] c = "2" -> 2 [] c = "3" -> 3
    [] c = "4" -> 4 [] c = "5" -> 5 [] c = "6" -> 6 [] c = "7" -> 7
    [] c = "8" -> 8 [] c = "9" -> 9

\* value of a non-empty string of decimal digits
RECURSIVE DecVal(_)
DecVal(s) ==
  IF s = <<>> THEN 0
  ELSE 10 * DecVal(SubSeq(s, 1, Len(s) - 1)) + DigitVal(s[Len(s)])

AllDigits(s) == s # <<>> /\ \A i \in 1..Len(s) : isdigit(s[i])

\* int(s) succeeds (optional sign, then digits)
IsInt(s) ==
  \/ AllDigits(s)
  \/ Len(s) >= 2 /\ s[1] \in {"-", "+"} /\ AllDigits(Tail(s))

\* int(s), for a string on which int() succeeds
int(s) ==
  IF s[1] = "-" THEN 0 - DecVal(Tail(s))
  ELSE IF s[1] = "+" THEN DecVal(Tail(s))
  ELSE DecVal(s)

\* str.upper() on one character, and on a string
UpperChar(c) ==
  CASE c = "a" -> "A" [] c = "c" -> "C" [] c = "g" -> "G" [] c = "t" -> "T"
    [] OTHER -> c

upper(s) == [i \in 1..Len(s) |-> UpperChar(s[i])]

RECURSIVE lstrip(_)
lstrip(s) ==
  IF s # <<>> /\ Head(s) \in Whitespace THEN lstrip(Tail(s)) ELSE s

RECURSIVE rstrip(_)
rstrip(s) ==
  IF s # <<>> /\ s[Len(s)] \in Whitespace
  THEN rstrip(SubSeq(s, 1, Len(s) - 1)) ELSE s

strip(s) == lstrip(rstrip(s))

\* the leading run of non-whitespace characters of s
RECURSIVE TakeToken(_)
TakeToken(s) ==
  IF s = <<>> \/ Head(s) \in Whitespace THEN <<>>
  ELSE <<Head(s)>> \o TakeToken(Tail(s))

\* s.split()[0]; <<>> stands for the IndexError of an empty split
FirstToken(s) == TakeToken(lstrip(s))

\* Python list/str indexing: a negative index counts from the end
PyIndexOK(s, i) == i >= 0 - Len(s) /\ i < Len(s)

\* the 1-based TLA+ position of Python index i
PyPos(s, i) == IF i >= 0 THEN i + 1 ELSE Len(s) + i + 1

PyGet(s, i) == s[PyPos(s, i)]

\* xrange(a, b) as a sequence
xrange(a, b) == [k \in 1..(IF b > a THEN b - a ELSE 0) |-> a + k - 1]

RECURSIVE SumSeq(_)
SumSeq(s) == IF s = <<>> THEN 0 ELSE Head(s) + SumSeq(Tail(s))

Last(s) == s[Len(s)]

\* ------------------------------------------------------------------------
\* read_fasta_file_handle: the (header, sequence) pairs the generator yields
\* ------------------------------------------------------------------------

RECURSIVE read_fasta_loop(_, _, _, _, _)
read_fasta_loop(lines, header, seqlines, sequence_nb, yielded) ==
  IF lines = <<>>
  THEN Append(yielded, <<header, seqlines>>)
  ELSE LET line == Head(lines) IN
    IF line[1] = ">"
    THEN read_fasta_loop(Tail(lines), rstrip(Tail(line)),
                         IF sequence_nb > 0 THEN <<>> ELSE seqlines,
                         sequence_nb + 1,
                         IF sequence_nb > 0
                         THEN Append(yielded, <<header, seqlines>>)
                         ELSE yielded)
    ELSE read_fasta_loop(Tail(lines), header, seqlines \o strip(line),
                         sequence_nb, yielded)

read_fasta_file_handle(fasta_file_handle) ==
  read_fasta_loop(fasta_file_handle, <<>>, <<>>, 0, <<>>)

\* ------------------------------------------------------------------------
\* Program state
\* ------------------------------------------------------------------------

VARIABLES
  pc,                            \* "start", "reading", "stats_done", "done", "error"
  error,                         \* <<>> or <<exception name, source line>>
  references,                    \* args.references: the lines of the fasta file
  lines_read,                    \* the split lines (tab) the sam loop has taken so far
  ref_seq_dict,
  ref_positions_count_dict,
  total_ref_length,
  previous_query_id,
  total_aligned_contigs_num,
  total_aligned_contigs_length,
  total_matches_num,
  total_mismatches_num,
  total_indel_num,
  total_overhang_num,
  total_leven_distance,
  errors_num_per_kbp,            \* a quotient <<numerator, denominator>>
  coverage_count_list,
  total_covered_positions_count,
  max_coverage,
  percent_coverage_list,         \* quotients <<numerator, denominator>>
  total_ref_coverage,            \* a quotient <<numerator, denominator>>
  stdout                         \* the report lines written so far

\* the state of the pipeline driver, scripts/matam_assembly.py
VARIABLES
  driver_pc,                     \* "idle", "args", "main", "stages", "exited"
  args,                          \* the parsed command line
  driver_exception,              \* "" or the uncaught exception
  error_code,
  return_codes,                  \* what subprocess.call returned, in order
  to_rm_filepath_list,
  existing_files,                \* the tagged files that exist on disk
  removed_files,                 \* the files os.remove has deleted
  exit_status

driverVars == <<driver_pc, args, driver_exception, error_code, return_codes,
                to_rm_filepath_list, existing_files, removed_files,
                exit_status>>

refVars == <<references, ref_seq_dict, ref_positions_count_dict,
             total_ref_length>>

totalVars == <<previous_query_id, total_aligned_contigs_num,
               total_aligned_contigs_length, total_matches_num,
               total_mismatches_num, total_indel_num, total_overhang_num>>

statVars == <<total_leven_distance, errors_num_per_kbp, coverage_count_list,
              total_covered_positions_count, max_coverage,
              percent_coverage_list, total_ref_coverage>>

vars == <<pc, error, lines_read, refVars, totalVars, statVars, stdout,
         driverVars>>

NoError == <<>>

EmptyDict == [k \in {} |-> 0]

\* d[key] = value
DictPut(d, key, value) ==
  [k \in (DOMAIN d) \cup {key} |-> IF k = key THEN value ELSE d[k]]

\* ------------------------------------------------------------------------
\* Input files
\* ------------------------------------------------------------------------

R1 == <<"R", "1">>
R3 == <<"R", "3">>
R2 == <<"R", "2">>
RX == <<"R", "X">>
q1 == <<"q", "1">>
q2 == <<"q", "2">>

\* the reference files of the model, as lists of lines
RefFiles ==
  { \* >R1 / AC / A / >R2 d / ac
    << <<">", "R", "1", "\n">>, <<"A", "C", "\n">>, <<"A", "\n">>,
       <<">", "R", "2", " ", "d", "\n">>, <<"a", "c", "\n">> >>,
    \* two records with the same id
    << <<">", "R", "1", "\n">>, <<"A", "C", "\n">>,
       <<">", "R", "1", "\n">>, <<"A", "\n">> >>,
    \* a sequence line before the first header
    << <<"A", "C", "\n">>, <<">", "R", "1", "\n">>, <<"A", "\n">> >>,
    \* a header and no bases
    << <<">", "R", "1", "\n">> >>,
    \* one reference of ten bases
    << <<">", "R", "3", "\n">>,
       <<"A", "A", "A", "A", "A", "A", "A", "A", "A", "A", "\n">> >>,
    \* no header at all
    << <<"A", "C", "\n">> >>,
    \* the empty file
    << >> }

\* ------------------------------------------------------------------------
\* Reference loading (the loop over read_fasta_file_handle)
\* ------------------------------------------------------------------------

RECURSIVE load_references(_, _)
load_references(pairs, st) ==
  IF pairs = <<>> THEN st
  ELSE LET header == pairs[1][1]
           seq    == pairs[1][2]
           seqid  == FirstToken(header)
       IN IF seqid = <<>>
          THEN [st EXCEPT !.error = <<"IndexError", 82>>]
          ELSE load_references(Tail(pairs),
                 [error |-> NoError,
                  total_ref_length |-> st.total_ref_length + Len(seq),
                  ref_seq_dict |-> DictPut(st.ref_seq_dict, seqid, upper(seq)),
                  ref_positions_count_dict |->
                    DictPut(st.ref_positions_count_dict, seqid,
                            [x \in 1..Len(seq) |-> 0])])

LoadReferences ==
  /\ pc = "start"
  /\ LET st == load_references(read_fasta_file_handle(references),
                 [error |-> NoError, total_ref_length |-> 0,
                  ref_seq_dict |-> EmptyDict,
                  ref_positions_count_dict |-> EmptyDict])
     IN /\ total_ref_length' = st.total_ref_length
        /\ ref_seq_dict' = st.ref_seq_dict
        /\ ref_positions_count_dict' = st.ref_positions_count_dict
        /\ error' = st.error
        /\ pc' = IF st.error = NoError THEN "reading" ELSE "error"
  /\ UNCHANGED <<references, lines_read, totalVars, statVars, stdout>>
  /\ UNCHANGED driverVars

\* ------------------------------------------------------------------------
\* parse_cigar: the list of <<operation, count>> pairs
\* ------------------------------------------------------------------------

\* the count of an operation, with 0 for an operation without digits
count_of_zero(count_str) ==
  IF count_str # <<>> THEN int(count_str) ELSE 0

\* the count of an operation: 1, or int(count_str) when there are digits
count_of(count_str) ==
  IF count_str # <<>> THEN int(count_str) ELSE 1

RECURSIVE parse_cigar_loop(_, _, _)
parse_cigar_loop(cigar, cigar_tab, count_str) ==
  IF cigar = <<>> THEN cigar_tab
  ELSE LET c == Head(cigar) IN
    IF isdigit(c)
    THEN parse_cigar_loop(Tail(cigar), cigar_tab, Append(count_str, c))
    ELSE LET operation == c
             count == count_of(count_str)
         IN parse_cigar_loop(Tail(cigar),
                             Append(cigar_tab, <<operation, count>>), <<>>)

parse_cigar(cigar) == parse_cigar_loop(cigar, <<>>, <<>>)

\* ------------------------------------------------------------------------
\* One sam record: field parsing, subject lookup, soft clip, CIGAR walk
\* ------------------------------------------------------------------------

\* the columns of a split sam line that go through int()
IntColumns == {1, 3, 4}

\* the first exception of the field parsing of tab, or NoError:
\* column k (0-based) is read on source line 99 + k
RECURSIVE tab_error(_, _)
tab_error(tab, k) ==
  IF k > 10 THEN NoError
  ELSE IF Len(tab) <= k THEN <<"IndexError", 99 + k>>
  ELSE IF k \in IntColumns /\ ~IsInt(tab[k + 1]) THEN <<"ValueError", 99 + k>>
  ELSE tab_error(tab, k + 1)

\* the query id read from the subject column
query_id_from_subject(tab) == tab[3]

\* query_id = tab[0]
query_id_of(tab) == tab[1]

\* subject_id = tab[2]
subject_id_of(tab) == tab[3]

\* first_pos = int(tab[3])
first_pos_of(tab) == int(tab[4])

\* cigar = tab[5]
cigar_of(tab) == tab[6]

\* query_seq = tab[9].upper()
query_seq_of(tab) == upper(tab[10])

\* subject_seq = ref_seq_dict[subject_id]
LookupSubjectDefault(d, subject_id) ==
  [error |-> NoError,
   seq |-> IF subject_id \in DOMAIN d THEN d[subject_id] ELSE <<>>]

LookupSubject(d, subject_id) ==
  IF subject_id \in DOMAIN d
  THEN [error |-> NoError, seq |-> d[subject_id]]
  ELSE [error |-> <<"KeyError", 114>>, seq |-> <<>>]

\* the per-record variables before the walk: soft clipping of the first
\* operation, then the two cursors one position before the starts
walk_init(cigar_tab, first_pos) ==
  LET clipped == cigar_tab[1][1] = "S"
      count == cigar_tab[1][2]
      subject_start == first_pos - 1
      query_start == IF clipped THEN count ELSE 0
  IN [error |-> NoError,
      cigar_tab |-> IF clipped THEN Tail(cigar_tab) ELSE cigar_tab,
      subject_start |-> subject_start,
      query_start |-> query_start,
      overhang_num |-> IF clipped THEN count ELSE 0,
      query_end |-> query_start - 1,
      subject_end |-> subject_start - 1,
      indel_num |-> 0,
      matches_num |-> 0,
      mismatches_num |-> 0]

\* an M block that adds the whole count to the mismatches
m_block_all_mismatches(w, count, query_seq, subject_seq) ==
  IF \E i \in 0..(count - 1) :
       \/ ~PyIndexOK(query_seq, w.query_end + 1 + i)
       \/ ~PyIndexOK(subject_seq, w.subject_end + 1 + i)
  THEN [w EXCEPT !.error = <<"IndexError", 138>>]
  ELSE LET local_matches_num ==
             Cardinality({i \in 0..(count - 1) :
                PyGet(query_seq, w.query_end + 1 + i)
                  = PyGet(subject_seq, w.subject_end + 1 + i)})
       IN [w EXCEPT !.matches_num = @ + local_matches_num,
                    !.mismatches_num = @ + count,
                    !.subject_end = @ + count,
                    !.query_end = @ + count]

\* operation == 'M': compare count bases, advance both cursors
m_block(w, count, query_seq, subject_seq) ==
  IF \E i \in 0..(count - 1) :
       \/ ~PyIndexOK(query_seq, w.query_end + 1 + i)
       \/ ~PyIndexOK(subject_seq, w.subject_end + 1 + i)
  THEN [w EXCEPT !.error = <<"IndexError", 138>>]
  ELSE LET local_matches_num ==
             Cardinality({i \in 0..(count - 1) :
                PyGet(query_seq, w.query_end + 1 + i)
                  = PyGet(subject_seq, w.subject_end + 1 + i)})
       IN [w EXCEPT !.matches_num = @ + local_matches_num,
                    !.mismatches_num = @ + count - local_matches_num,
                    !.subject_end = @ + count,
                    !.query_end = @ + count]

\* operation == 'I'
i_block(w, count) ==
  [w EXCEPT !.query_end = @ + count, !.indel_num = @ + count]

\* a D block that advances the query cursor
d_block_on_query(w, count) ==
  [w EXCEPT !.query_end = @ + count, !.indel_num = @ + count]

\* operation == 'D'
d_block(w, count) ==
  [w EXCEPT !.subject_end = @ + count, !.indel_num = @ + count]

\* an S block that also advances the query cursor
s_block_advancing(w, count) ==
  [w EXCEPT !.overhang_num = @ + count, !.query_end = @ + count]

\* operation == 'S'
s_block(w, count) ==
  [w EXCEPT !.overhang_num = @ + count]

\* an unknown operation taken as a skip of the subject
other_block_skipping(w, count) ==
  [w EXCEPT !.subject_end = @ + count]

\* any other operation: no branch of the if/elif chain is taken
other_block(w, count) == w

\* one iteration of the loop over cigar_tab
cigar_step(w, operation, count, query_seq, subject_seq) ==
  IF operation = "M" THEN m_block(w, count, query_seq, subject_seq)
  ELSE IF operation = "I" THEN i_block(w, count)
  ELSE IF operation = "D" THEN d_block(w, count)
  ELSE IF operation = "S" THEN s_block(w, count)
  ELSE other_block(w, count)

RECURSIVE walk_cigar(_, _, _, _)
walk_cigar(w, cigar_tab, query_seq, subject_seq) ==
  IF cigar_tab = <<>> \/ w.error # NoError THEN w
  ELSE walk_cigar(cigar_step(w, cigar_tab[1][1], cigar_tab[1][2],
                             query_seq, subject_seq),
                  Tail(cigar_tab), query_seq, subject_seq)

\* the walk of one record whose fields parsed, against subject_seq
walk_record(tab, subject_seq) ==
  LET cigar_tab == parse_cigar(cigar_of(tab)) IN
    IF cigar_tab = <<>>
    THEN [error |-> <<"IndexError", 123>>]
    ELSE LET w0 == walk_init(cigar_tab, first_pos_of(tab))
         IN walk_cigar(w0, w0.cigar_tab, query_seq_of(tab), subject_seq)

\* ------------------------------------------------------------------------
\* Store metrics, coverage increment
\* ------------------------------------------------------------------------

\* the test of "Store metrics", counting every record
every_record(query_id, previous) == TRUE

\* the test of "Store metrics"
new_query(query_id, previous) == query_id # previous

\* the positions one record increments, half-open at subject_end
coverage_range_open(subject_start, subject_end) ==
  xrange(subject_start, subject_end)

\* the positions one record increments
coverage_range(subject_start, subject_end) ==
  xrange(subject_start, subject_end + 1)

\* ref_positions_count[i] += 1 for the indices of idxs, up to the first
\* index out of range
RECURSIVE increment_coverage(_, _)
increment_coverage(ref_positions_count, idxs) ==
  IF idxs = <<>>
  THEN [error |-> NoError, count |-> ref_positions_count]
  ELSE IF ~PyIndexOK(ref_positions_count, Head(idxs))
  THEN [error |-> <<"IndexError", 164>>, count |-> ref_positions_count]
  ELSE increment_coverage(
         [ref_positions_count EXCEPT
            ![PyPos(ref_positions_count, Head(idxs))] = @ + 1],
         Tail(idxs))

\* ------------------------------------------------------------------------
\* The sam file: the split lines the loop can read
\* ------------------------------------------------------------------------

\* query id, flag, subject id, position, mapping quality, cigar, rnext,
\* pnext, tlen, query sequence, quality
SamLine(query_id, subject_id, first_pos, cigar, query_seq) ==
  <<query_id, <<"1", "6">>, subject_id, first_pos, <<"6", "0">>, cigar,
    <<"*">>, <<"0">>, <<"0">>, query_seq, <<"*">>>>

SamLines ==
  { SamLine(q1, R1, <<"1">>, <<"2", "M">>, <<"A", "C">>),
    SamLine(q1, R1, <<"2">>, <<"1", "M">>, <<"a">>),
    SamLine(q1, R2, <<"1">>, <<"1", "S", "1", "M">>, <<"C", "A">>),
    SamLine(q1, R2, <<"1">>, <<"2", "M">>, <<"A", "C">>),
    SamLine(q2, R1, <<"0">>, <<"1", "M">>, <<"A">>),
    SamLine(q2, RX, <<"1">>, <<"1", "I">>, <<"A">>),
    SamLine(q2, R1, <<"1">>, <<"1", "I">>, <<"A">>),
    SamLine(q2, R1, <<"1">>, <<"M">>, <<"A">>),
    SamLine(q2, R1, <<"1">>, <<"1", "M", "1">>, <<"A">>),
    SamLine(q2, R1, <<"1">>, <<"2">>, <<"A">>),
    SamLine(q2, R1, <<"3">>, <<"1", "M", "2", "D">>, <<"A">>),
    SamLine(q2, R2, <<"1">>, <<"1", "H", "0", "1", "M", "1", "D">>, <<"C">>),
    SamLine(q2, R1, <<"1">>, <<"1", "S", "1", "M", "1", "S">>,
            <<"C", "A", "C">>),
    SamLine(q2, R2, <<"0">>, <<"1", "M", "2", "D">>, <<"C">>),
    SamLine(q1, R3, <<"1">>, <<"3", "S", "7", "M">>,
            <<"C", "C", "C", "A", "A", "A", "A", "A", "A", "A">>),
    SamLine(q2, R1, <<"x">>, <<"1", "M">>, <<"A">>),
    <<q2, <<"0">>, R1>> }

\* ------------------------------------------------------------------------
\* The body of the loop over the sam file, for one split line
\* ------------------------------------------------------------------------

\* what one iteration does: the exception it ends in (or NoError), whether
\* "Store metrics" was reached (stored), the per-record counts (w) and the
\* coverage array of the subject after the increments (count)
record_outcome(tab) ==
  LET perr == tab_error(tab, 0) IN
  IF perr # NoError
  THEN [error |-> perr, stored |-> FALSE, counted |-> FALSE]
  ELSE
  LET subject_id == subject_id_of(tab)
      lk == LookupSubject(ref_seq_dict, subject_id)
  IN
  IF lk.error # NoError
  THEN [error |-> lk.error, stored |-> FALSE, counted |-> FALSE]
  ELSE
  LET w == walk_record(tab, lk.seq) IN
  IF w.error # NoError
  THEN [error |-> w.error, stored |-> FALSE, counted |-> FALSE]
  ELSE
  IF subject_id \notin DOMAIN ref_positions_count_dict
  THEN [error |-> <<"KeyError", 162>>, stored |-> TRUE, counted |-> FALSE,
        w |-> w]
  ELSE
  LET c == increment_coverage(ref_positions_count_dict[subject_id],
                              coverage_range(w.subject_start, w.subject_end))
  IN [error |-> c.error, stored |-> TRUE, counted |-> TRUE, w |-> w,
      count |-> c.count]

\* the six running totals and previous_query_id, as one record
Totals ==
  [previous_query_id |-> previous_query_id,
   total_aligned_contigs_num |-> total_aligned_contigs_num,
   total_aligned_contigs_length |-> total_aligned_contigs_length,
   total_matches_num |-> total_matches_num,
   total_mismatches_num |-> total_mismatches_num,
   total_indel_num |-> total_indel_num,
   total_overhang_num |-> total_overhang_num]

\* "Store metrics" with the overhang total assigned instead of added to
store_metrics_assigning(t, tab, w) ==
  IF new_query(query_id_of(tab), t.previous_query_id)
  THEN [t EXCEPT
          !.total_aligned_contigs_num = @ + 1,
          !.total_aligned_contigs_length = @ + Len(query_seq_of(tab)),
          !.total_matches_num = @ + w.matches_num,
          !.total_mismatches_num = @ + w.mismatches_num,
          !.total_indel_num = @ + w.indel_num,
          !.total_overhang_num = w.overhang_num]
  ELSE t

\* "Store metrics": the totals t after the record tab with per-record counts w
store_metrics(t, tab, w) ==
  IF new_query(query_id_of(tab), t.previous_query_id)
  THEN [t EXCEPT
          !.total_aligned_contigs_num = @ + 1,
          !.total_aligned_contigs_length = @ + Len(query_seq_of(tab)),
          !.total_matches_num = @ + w.matches_num,
          !.total_mismatches_num = @ + w.mismatches_num,
          !.total_indel_num = @ + w.indel_num,
          !.total_overhang_num = @ + w.overhang_num]
  ELSE t

ProcessRecord(tab) ==
  /\ pc = "reading"
  /\ Len(lines_read) < MaxRecs
  /\ lines_read' = Append(lines_read, tab)
  /\ LET o == record_outcome(tab)
         t == IF o.stored THEN store_metrics(Totals, tab, o.w) ELSE Totals
     IN /\ error' = o.error
        /\ pc' = IF o.error = NoError THEN "reading" ELSE "error"
        /\ total_aligned_contigs_num' = t.total_aligned_contigs_num
        /\ total_aligned_contigs_length' = t.total_aligned_contigs_length
        /\ total_matches_num' = t.total_matches_num
        /\ total_mismatches_num' = t.total_mismatches_num
        /\ total_indel_num' = t.total_indel_num
        /\ total_overhang_num' = t.total_overhang_num
        /\ ref_positions_count_dict' =
             IF o.counted
             THEN [ref_positions_count_dict EXCEPT
                     ![subject_id_of(tab)] = o.count]
             ELSE ref_positions_count_dict
        /\ previous_query_id' =
             IF o.error = NoError THEN query_id_of(tab)
             ELSE previous_query_id
  /\ UNCHANGED <<references, ref_seq_dict, total_ref_length, statVars, stdout>>
  /\ UNCHANGED driverVars

\* the variables initialization before the loop over the sam file
InitialTotals ==
  [previous_query_id |-> <<>>,
   total_aligned_contigs_num |-> 0,
   total_aligned_contigs_length |-> 0,
   total_matches_num |-> 0,
   total_mismatches_num |-> 0,
   total_indel_num |-> 0,
   total_overhang_num |-> 0]

\* the totals of the loop over a whole stream s of lines that all run to
\* the end of their iteration, starting from the totals t
RECURSIVE pass_totals(_, _)
pass_totals(t, s) ==
  IF s = <<>> THEN t
  ELSE LET tab == Head(s)
           w == walk_record(tab, ref_seq_dict[subject_id_of(tab)])
       IN pass_totals([store_metrics(t, tab, w) EXCEPT
                         !.previous_query_id = query_id_of(tab)],
                      Tail(s))

\* ------------------------------------------------------------------------
\* Final stats
\* ------------------------------------------------------------------------

\* the number of entries of coverage_count_list: depths 0..9 and "10 or more"
BucketsNum == 11

\* the index in coverage_count_list (0-based) of a position of this depth
bucket_of(pos_coverage) ==
  IF pos_coverage >= BucketsNum - 1 THEN BucketsNum - 1 ELSE pos_coverage

\* the inner loop over the positions of one reference
RECURSIVE count_positions(_, _)
count_positions(st, ref_positions_count) ==
  IF ref_positions_count = <<>> THEN st
  ELSE LET pos_coverage == Head(ref_positions_count) IN
    count_positions(
      [covered |-> IF pos_coverage > 0 THEN st.covered + 1 ELSE st.covered,
       list |-> [st.list EXCEPT ![bucket_of(pos_coverage) + 1] = @ + 1]],
      Tail(ref_positions_count))

\* the outer loop over the references
RECURSIVE coverage_histogram(_, _)
coverage_histogram(st, ref_ids) ==
  IF ref_ids = {} THEN st
  ELSE LET ref_id == CHOOSE r \in ref_ids : TRUE IN
    coverage_histogram(count_positions(st, ref_positions_count_dict[ref_id]),
                       ref_ids \ {ref_id})

\* the largest i with coverage_count_list[i] > 0, or 0
max_nonzero(list) ==
  LET nz == {i \in 0..(BucketsNum - 1) : list[i + 1] > 0}
  IN IF nz = {} THEN 0 ELSE CHOOSE i \in nz : \A j \in nz : j <= i

ZeroQuotient == <<0, 1>>

FinalStats ==
  /\ pc = "reading"
  /\ total_leven_distance' =
       total_mismatches_num + total_indel_num + total_overhang_num
  /\ IF total_aligned_contigs_length = 0
     THEN /\ error' = <<"ZeroDivisionError", 171>>
          /\ pc' = "error"
          /\ UNCHANGED <<errors_num_per_kbp, coverage_count_list,
                         total_covered_positions_count, max_coverage,
                         percent_coverage_list, total_ref_coverage>>
     ELSE
       LET h == coverage_histogram(
                  [covered |-> 0, list |-> [i \in 1..BucketsNum |-> 0]],
                  DOMAIN ref_seq_dict)
       IN /\ errors_num_per_kbp' =
               <<total_leven_distance' * 1000, total_aligned_contigs_length>>
          /\ coverage_count_list' = h.list
          /\ total_covered_positions_count' = h.covered
          /\ IF total_ref_length = 0
             THEN /\ error' = <<"ZeroDivisionError", 193>>
                  /\ pc' = "error"
                  /\ max_coverage' = 0
                  /\ percent_coverage_list' =
                       [i \in 1..BucketsNum |-> ZeroQuotient]
                  /\ UNCHANGED total_ref_coverage
             ELSE /\ error' = NoError
                  /\ pc' = "stats_done"
                  /\ max_coverage' = max_nonzero(h.list)
                  /\ percent_coverage_list' =
                       [i \in 1..BucketsNum |->
                          <<h.list[i] * 100, total_ref_length>>]
                  /\ total_ref_coverage' =
                       <<h.covered * 100, total_ref_length>>
  /\ UNCHANGED <<lines_read, refVars, totalVars, stdout>>
  /\ UNCHANGED driverVars

\* ------------------------------------------------------------------------
\* Output
\* ------------------------------------------------------------------------

\* '{0:.2f}'.format(q): the quotient in hundredths, rounded to nearest
two_decimals(q) == (2 * 100 * q[1] + q[2]) \div (2 * q[2])

Output ==
  /\ pc = "stats_done"
  /\ stdout' =
       << <<"Total aligned contigs num", total_aligned_contigs_num>>,
          <<"Total aligned contigs len", total_aligned_contigs_length>>,
          <<"Total ref length", total_ref_length>>,
          <<"Total matches num", total_matches_num>>,
          <<"Total mismatches num", total_mismatches_num>>,
          <<"Total indel num", total_indel_num>>,
          <<"Total overhang num", total_overhang_num>>,
          <<"Total leven distance", total_leven_distance>>,
          <<"Assembly error rate", two_decimals(errors_num_per_kbp)>>,
          <<"Total ref coverage", two_decimals(total_ref_coverage)>>,
          <<"Cov", [i \in 1..(max_coverage + 1) |-> i - 1]>>,
          <<"%align", [i \in 1..(max_coverage + 1) |->
                         two_decimals(percent_coverage_list[i])]>> >>
  /\ pc' = "done"
  /\ UNCHANGED <<error, lines_read, refVars, totalVars, statVars>>
  /\ UNCHANGED driverVars

\* ------------------------------------------------------------------------
\* The pipeline driver: command line
\* ------------------------------------------------------------------------

\* the values of --quorum of the model, in hundredths
QuorumValues == {0 - 1, 0, 30, 50, 51, 100, 101}

\* the values of --score_threshold and --min_identity, in hundredths
ScoreThresholdValues == {50, 101}

MinIdentityValues == {0 - 1, 50}

\* the command lines of the model, as argparse returns them
CommandLines ==
  [quorum : QuorumValues,
   score_threshold : ScoreThresholdValues,
   min_identity : MinIdentityValues,
   keep_tmp : BOOLEAN,
   debug : BOOLEAN,
   verbose : BOOLEAN]

\* the exception of "Arguments checking", or "" when the checks pass
arguments_check(a) ==
  IF a.score_threshold < 0 \/ a.score_threshold > 100
  THEN "score threshold not in range [0,1]"
  ELSE IF a.min_identity < 0 \/ a.min_identity > 100
  THEN "min identity not in range [0,1]"
  ELSE IF a.quorum < 0 \/ a.quorum > 100
  THEN "quorum not in range [0.51,1]"
  ELSE ""

\* "Set debug parameters"
set_debug(a) ==
  IF a.debug THEN [a EXCEPT !.verbose = TRUE, !.keep_tmp = TRUE] ELSE a

\* parse_arguments(): an uncaught Exception ends the program with status 1
ParseArguments ==
  /\ driver_pc = "args"
  /\ LET e == arguments_check(args) IN
       IF e # ""
       THEN /\ driver_exception' = e
            /\ driver_pc' = "exited"
            /\ exit_status' = 1
            /\ UNCHANGED args
       ELSE /\ args' = set_debug(args)
            /\ driver_pc' = "main"
            /\ UNCHANGED <<driver_exception, exit_status>>
  /\ UNCHANGED <<error_code, return_codes, to_rm_filepath_list,
                 existing_files, removed_files>>
  /\ UNCHANGED <<pc, error, lines_read, refVars, totalVars, statVars, stdout>>

\* ------------------------------------------------------------------------
\* The pipeline driver: stages
\* ------------------------------------------------------------------------

\* the number of subprocess.call stage commands that are executed
StagesNum == 6

\* what subprocess.call(cmd_line, shell=True) can return: the exit status of
\* the shell, or -N when the process was terminated by signal N
ReturnCodes == {0 - 1, 0, 1}

\* the files tagged for removal before the first executed stage command
TaggedAtStart == <<"sortme_output.log", "sortme_output.blast">>

\* the files tagged for removal right after stage command number stage
tagged_after(stage) ==
  IF stage = 5
  THEN <<"componentsearch.components.tab", "ovgraphbuild.nodes.tab",
         "complete_taxo.tab">>
  ELSE IF stage = 6 THEN <<"read_id_metanode_component.tab">>
  ELSE <<>>

AllTagged ==
  {"sortme_output.log", "sortme_output.blast",
   "componentsearch.components.tab", "ovgraphbuild.nodes.tab",
   "complete_taxo.tab", "read_id_metanode_component.tab"}

\* the start of __main__ up to the first executed stage command: error_code
\* and the list of tmp files are initialised, the output directory is made
\* (makedirs_ok says whether os.makedirs succeeds), two files are tagged
StartMain(makedirs_ok) ==
  /\ driver_pc = "main"
  /\ error_code' = 0
  /\ IF makedirs_ok
     THEN /\ to_rm_filepath_list' = TaggedAtStart
          /\ driver_pc' = "stages"
          /\ UNCHANGED <<driver_exception, exit_status>>
     ELSE /\ to_rm_filepath_list' = <<>>
          /\ driver_exception' = "OSError"
          /\ driver_pc' = "exited"
          /\ exit_status' = 1
  /\ UNCHANGED <<args, return_codes, existing_files, removed_files>>
  /\ UNCHANGED <<pc, error, lines_read, refVars, totalVars, statVars, stdout>>

\* error_code += subprocess.call(cmd_line, shell=True)
accumulate(code, returned) == code + returned

\* one executed stage command and the tagging that follows it
RunStage(returned) ==
  /\ driver_pc = "stages"
  /\ Len(return_codes) < StagesNum
  /\ error_code' = accumulate(error_code, returned)
  /\ return_codes' = Append(return_codes, returned)
  /\ to_rm_filepath_list' =
       to_rm_filepath_list \o tagged_after(Len(return_codes) + 1)
  /\ UNCHANGED <<driver_pc, args, driver_exception, existing_files,
                 removed_files, exit_status>>
  /\ UNCHANGED <<pc, error, lines_read, refVars, totalVars, statVars, stdout>>

\* rm_files: os.remove on every path, exceptions swallowed; the files removed
rm_files(filepath_list, on_disk) ==
  {filepath_list[i] : i \in 1..Len(filepath_list)} \cap on_disk

\* "Exit program"
ExitProgram ==
  /\ driver_pc = "stages"
  /\ Len(return_codes) = StagesNum
  /\ IF error_code = 0
     THEN /\ removed_files' =
               IF ~args.keep_tmp
               THEN rm_files(to_rm_filepath_list, existing_files)
               ELSE removed_files
          /\ existing_files' = existing_files \ removed_files'
          /\ exit_status' = 0
     ELSE /\ exit_status' = 1
          /\ UNCHANGED <<removed_files, existing_files>>
  /\ driver_pc' = "exited"
  /\ UNCHANGED <<args, driver_exception, error_code, return_codes,
                 to_rm_filepath_list>>
  /\ UNCHANGED <<pc, error, lines_read, refVars, totalVars, statVars, stdout>>

\* the driver is not running
DriverIdle ==
  /\ driver_pc = "idle"
  /\ args = [quorum |-> 51, score_threshold |-> 50, min_identity |-> 50,
             keep_tmp |-> FALSE, debug |-> FALSE, verbose |-> FALSE]
  /\ driver_exception = ""
  /\ error_code = 0
  /\ return_codes = <<>>
  /\ to_rm_filepath_list = <<>>
  /\ existing_files = {}
  /\ removed_files = {}
  /\ exit_status = 0

\* ------------------------------------------------------------------------
\* Specification
\* ------------------------------------------------------------------------

Init ==
  /\ pc = "start"
  /\ error = NoError
  /\ references \in RefFiles
  /\ lines_read = <<>>
  /\ ref_seq_dict = EmptyDict
  /\ ref_positions_count_dict = EmptyDict
  /\ total_ref_length = 0
  /\ previous_query_id = <<>>
  /\ total_aligned_contigs_num = 0
  /\ total_aligned_contigs_length = 0
  /\ total_matches_num = 0
  /\ total_mismatches_num = 0
  /\ total_indel_num = 0
  /\ total_overhang_num = 0
  /\ total_leven_distance = 0
  /\ errors_num_per_kbp = ZeroQuotient
  /\ coverage_count_list = <<>>
  /\ total_covered_positions_count = 0
  /\ max_coverage = 0
  /\ percent_coverage_list = <<>>
  /\ total_ref_coverage = ZeroQuotient
  /\ stdout = <<>>
  /\ DriverIdle

Next ==
  \/ LoadReferences
  \/ \E tab \in SamLines : ProcessRecord(tab)
  \/ FinalStats
  \/ Output

Spec == Init /\ [][Next]_vars

\* the statistics script is not running
StatsIdle ==
  /\ pc = "start"
  /\ error = NoError
  /\ references = <<>>
  /\ lines_read = <<>>
  /\ ref_seq_dict = EmptyDict
  /\ ref_positions_count_dict = EmptyDict
  /\ total_ref_length = 0
  /\ previous_query_id = <<>>
  /\ total_aligned_contigs_num = 0
  /\ total_aligned_contigs_length = 0
  /\ total_matches_num = 0
  /\ total_mismatches_num = 0
  /\ total_indel_num = 0
  /\ total_overhang_num = 0
  /\ total_leven_distance = 0
  /\ errors_num_per_kbp = ZeroQuotient
  /\ coverage_count_list = <<>>
  /\ total_covered_positions_count = 0
  /\ max_coverage = 0
  /\ percent_coverage_list = <<>>
  /\ total_ref_coverage = ZeroQuotient
  /\ stdout = <<>>

\* a run of the pipeline driver
DriverInit ==
  /\ StatsIdle
  /\ driver_pc = "args"
  /\ args \in CommandLines
  /\ driver_exception = ""
  /\ error_code = 0
  /\ return_codes = <<>>
  /\ to_rm_filepath_list = <<>>
  /\ existing_files \in {AllTagged, AllTagged \ {"sortme_output.log",
                                                "sortme_output.blast"}}
  /\ removed_files = {}
  /\ exit_status = 0

DriverNext ==
  \/ ParseArguments
  \/ \E makedirs_ok \in BOOLEAN : StartMain(makedirs_ok)
  \/ \E returned \in ReturnCodes : RunStage(returned)
  \/ ExitProgram

DriverSpec == DriverInit /\ [][DriverNext]_vars

\* ------------------------------------------------------------------------
\* Vocabulary of the properties
\* ------------------------------------------------------------------------

\* the references are loaded
Loaded == pc # "start" /\ ~(pc = "error" /\ error[2] = 82)

\* the last line read ended the run with an exception
RecordFailed == pc = "error" /\ error[2] >= 99 /\ error[2] <= 164

\* the pass over the sam file is over and the final statistics were started
PassEnded == pc \in {"stats_done", "done"} \/ (pc = "error" /\ error[2] >= 169)

\* the coverage histogram was computed
HistogramComputed ==
  pc \in {"stats_done", "done"} \/ (pc = "error" /\ error[2] = 193)

\* the lines whose iteration ran to its end
ProcessedLines ==
  IF RecordFailed THEN SubSeq(lines_read, 1, Len(lines_read) - 1)
  ELSE lines_read

\* the lines whose iteration reached "Store metrics"
StoredLines ==
  IF RecordFailed /\ error[2] < 153
  THEN SubSeq(lines_read, 1, Len(lines_read) - 1)
  ELSE lines_read

\* the per-record counts of a line that was walked
WalkOf(tab) == walk_record(tab, ref_seq_dict[tab[3]])

\* the positions of s that start a maximal run of equal query ids
RunStarts(s) == {k \in 1..Len(s) : k = 1 \/ s[k][1] # s[k - 1][1]}

\* the sum of f[k] over the k of the finite set S
RECURSIVE SetSum(_, _)
SetSum(S, f) ==
  IF S = {} THEN 0
  ELSE LET k == CHOOSE x \in S : TRUE IN f[k] + SetSum(S \ {k}, f)

SixTotals ==
  <<total_aligned_contigs_num, total_aligned_contigs_length,
    total_matches_num, total_mismatches_num, total_indel_num,
    total_overhang_num>>

\* ------------------------------------------------------------------------
\* C1
\* ------------------------------------------------------------------------

\* C1: when the pass ends with zero records read, the final statistics do
\* not end in the division failure of the error rate
C1_NoDataOnZeroRecords ==
  (PassEnded /\ lines_read = <<>>) => error # <<"ZeroDivisionError", 171>>

\* ------------------------------------------------------------------------
\* C2
\* ------------------------------------------------------------------------

\* C2: the six running totals are the sums, over the first records of the
\* maximal runs of equal query ids, of that record's length and counts; in
\* particular the contig count is the number of runs
C2_TotalsOncePerRun ==
  Loaded =>
    LET s == StoredLines
        firsts == RunStarts(s)
        W == [k \in 1..Len(s) |-> WalkOf(s[k])]
    IN SixTotals =
         <<Cardinality(firsts),
           SetSum(firsts, [k \in 1..Len(s) |-> Len(s[k][10])]),
           SetSum(firsts, [k \in 1..Len(s) |-> W[k].matches_num]),
           SetSum(firsts, [k \in 1..Len(s) |-> W[k].mismatches_num]),
           SetSum(firsts, [k \in 1..Len(s) |-> W[k].indel_num]),
           SetSum(firsts, [k \in 1..Len(s) |-> W[k].overhang_num])>>

\* a run of two records of one query, then a record of another query
C2_Witness ==
  /\ pc = "reading"
  /\ Len(lines_read) = 3
  /\ lines_read[1][1] = lines_read[2][1]
  /\ lines_read[2][1] # lines_read[3][1]
  /\ Len(lines_read[2][10]) > 0
  /\ total_aligned_contigs_num = 2

\* ------------------------------------------------------------------------
\* C3
\* ------------------------------------------------------------------------

\* C3: after the processed records, the sum of each coverage array is the
\* sum of subject_end - subject_start + 1 over all records of that reference
C3_CoverageSum ==
  (Loaded /\ ~RecordFailed) =>
    \A ref_id \in DOMAIN ref_positions_count_dict :
      LET s == lines_read
          on == {k \in 1..Len(s) : s[k][3] = ref_id}
      IN SumSeq(ref_positions_count_dict[ref_id]) =
           SetSum(on, [k \in 1..Len(s) |->
                         WalkOf(s[k]).subject_end
                           - WalkOf(s[k]).subject_start + 1])

\* two records of the same query on one reference, both counted in coverage
C3_Witness ==
  /\ pc = "reading"
  /\ Len(lines_read) >= 2
  /\ lines_read[1][1] = lines_read[2][1]
  /\ lines_read[1][3] = lines_read[2][3]
  /\ SumSeq(ref_positions_count_dict[lines_read[1][3]]) >= 3

\* ------------------------------------------------------------------------
\* C4
\* ------------------------------------------------------------------------

\* C4: coverage[p] is the number of processed records of the reference
\* whose span first_position - 1 .. subject_end contains p
C4_CoverageDepth ==
  (Loaded /\ ~RecordFailed) =>
    \A ref_id \in DOMAIN ref_positions_count_dict :
      \A p \in 0..(Len(ref_positions_count_dict[ref_id]) - 1) :
        ref_positions_count_dict[ref_id][p + 1] =
          Cardinality({k \in 1..Len(lines_read) :
             /\ lines_read[k][3] = ref_id
             /\ int(lines_read[k][4]) - 1 <= p
             /\ p <= WalkOf(lines_read[k]).subject_end})

\* ------------------------------------------------------------------------
\* C5
\* ------------------------------------------------------------------------

\* C5: the 11 bucket counts sum to total_ref_length
C5_HistogramComplete ==
  HistogramComputed => SumSeq(coverage_count_list) = total_ref_length

\* ------------------------------------------------------------------------
\* C6
\* ------------------------------------------------------------------------

SixOf(t) ==
  <<t.total_aligned_contigs_num, t.total_aligned_contigs_length,
    t.total_matches_num, t.total_mismatches_num, t.total_indel_num,
    t.total_overhang_num>>

\* the start of the run of equal query ids that position k of s lies in
RunOf(s, k) ==
  CHOOSE a \in RunStarts(s) :
    a <= k /\ \A b \in RunStarts(s) : b <= k => b <= a

\* the permutations of the positions of s that move every record inside its
\* own run of equal query ids
GroupPerms(s) ==
  {p \in [1..Len(s) -> 1..Len(s)] :
     /\ \A i, j \in 1..Len(s) : p[i] = p[j] => i = j
     /\ \A k \in 1..Len(s) : RunOf(s, p[k]) = RunOf(s, k)}

Permuted(s, p) == [k \in 1..Len(s) |-> s[p[k]]]

\* C6 (as claimed): permuting the records inside their query-id groups
\* leaves all six running totals of the pass unchanged
C6_PermutationInvariant ==
  (Loaded /\ ~RecordFailed) =>
    \A p \in GroupPerms(lines_read) :
      SixOf(pass_totals(InitialTotals, Permuted(lines_read, p))) = SixTotals

\* C6 (amended): a permutation inside the groups leaves the contig count
\* unchanged, and leaves all six totals unchanged when it keeps the first
\* record of every group in place
C6_PermutationKeepingFirsts ==
  (Loaded /\ ~RecordFailed) =>
    \A p \in GroupPerms(lines_read) :
      LET t == pass_totals(InitialTotals, Permuted(lines_read, p)) IN
        /\ t.total_aligned_contigs_num = total_aligned_contigs_num
        /\ (\A a \in RunStarts(lines_read) : p[a] = a) => SixOf(t) = SixTotals

\* a group of three records of one query whose second and third records
\* differ in their counts
C6_Witness ==
  /\ pc = "reading"
  /\ Len(lines_read) = 3
  /\ RunStarts(lines_read) = {1}
  /\ WalkOf(lines_read[2]).overhang_num # WalkOf(lines_read[3]).overhang_num

\* ------------------------------------------------------------------------
\* C7
\* ------------------------------------------------------------------------

RECURSIVE DropTrailingDigits(_)
DropTrailingDigits(cigar) ==
  IF cigar # <<>> /\ isdigit(Last(cigar))
  THEN DropTrailingDigits(SubSeq(cigar, 1, Len(cigar) - 1)) ELSE cigar

\* the cigar does not start with a digit, or does not end with an operator
MalformedCigar(cigar) == ~isdigit(cigar[1]) \/ isdigit(Last(cigar))

HasPreHeaderLines(lines) == lines # <<>> /\ lines[1][1] # ">"

\* C8: a reference file with sequence lines before the first header fails
\* the load, and no sequence is stored for it
C8_PreHeaderLinesFail ==
  (pc # "start" /\ HasPreHeaderLines(references)) =>
    (pc = "error" /\ error[2] = 82 /\ ref_seq_dict = EmptyDict)

\* ------------------------------------------------------------------------
\* C9
\* ------------------------------------------------------------------------

\* the step reads a line whose fields parse and whose subject id is absent
\* from the reference catalog
ReadsAbsentSubject ==
  /\ pc = "reading"
  /\ Len(lines_read') = Len(lines_read) + 1
  /\ tab_error(Last(lines_read'), 0) = NoError
  /\ Last(lines_read')[3] \notin DOMAIN ref_seq_dict

\* C9: a record whose subject id is absent aborts the run at that record:
\* no total and no coverage array changes, nothing is written, and no step
\* follows
C9_AbsentSubjectAborts ==
  [][ /\ ReadsAbsentSubject =>
           /\ pc' = "error"
           /\ error' = <<"KeyError", 114>>
           /\ UNCHANGED <<totalVars, ref_positions_count_dict, statVars>>
           /\ stdout' = <<>>
      /\ (pc = "error" /\ error[1] = "KeyError") => UNCHANGED vars ]_vars

\* the run aborted on an absent subject after a record that was counted
C9_Witness ==
  /\ pc = "error"
  /\ error = <<"KeyError", 114>>
  /\ total_aligned_contigs_num >= 1
  /\ stdout = <<>>

\* ------------------------------------------------------------------------
\* C10
\* ------------------------------------------------------------------------

\* C10: with total_ref_length 0 and a completed pass with aligned contigs,
\* the final statistics complete and the report is produced
C10_NoDataOnZeroRefLength ==
  (PassEnded /\ total_ref_length = 0 /\ total_aligned_contigs_length > 0) =>
    pc # "error"

\* ------------------------------------------------------------------------
\* Vocabulary of the properties of the CIGAR walk
\* ------------------------------------------------------------------------

\* the operations of a line as parsed, before the soft clipping
CigarTabOf(tab) == parse_cigar(tab[6])

\* the operations the walk loops over, after the soft clipping
PostClip(tab) == walk_init(CigarTabOf(tab), int(tab[4])).cigar_tab

\* the sum of the counts of the operations of cigar_tab whose letter is in ops
RECURSIVE OpSum(_, _)
OpSum(cigar_tab, ops) ==
  IF cigar_tab = <<>> THEN 0
  ELSE (IF cigar_tab[1][1] \in ops THEN cigar_tab[1][2] ELSE 0)
         + OpSum(Tail(cigar_tab), ops)

\* the per-record variables after the first j operations of the walk
WalkPrefix(tab, j) ==
  walk_cigar(walk_init(CigarTabOf(tab), int(tab[4])),
             SubSeq(PostClip(tab), 1, j),
             upper(tab[10]), ref_seq_dict[tab[3]])

KnownOps == {"M", "I", "D", "S"}

\* ------------------------------------------------------------------------
\* C12
\* ------------------------------------------------------------------------

\* C12: for every record walked without error, matches plus mismatches is
\* the total length of the M operations left after the soft clipping
C12_MatchesPlusMismatches ==
  Loaded =>
    \A k \in 1..Len(StoredLines) :
      LET tab == StoredLines[k] IN
        WalkOf(tab).matches_num + WalkOf(tab).mismatches_num
          = OpSum(PostClip(tab), {"M"})

\* records were walked that gave both matches and mismatches
C12_Witness ==
  /\ pc = "reading"
  /\ total_matches_num > 0
  /\ total_mismatches_num > 0

\* ------------------------------------------------------------------------
\* C13
\* ------------------------------------------------------------------------

\* C13: query_start is the length of a leading S (else 0), the overhang is
\* the sum of the lengths of all S operations, and an S operation of the
\* walk moves neither cursor
C13_SoftClips ==
  Loaded =>
    \A k \in 1..Len(StoredLines) :
      LET tab == StoredLines[k]
          ct == CigarTabOf(tab)
          post == PostClip(tab)
      IN /\ WalkOf(tab).query_start =
              (IF ct[1][1] = "S" THEN ct[1][2] ELSE 0)
         /\ WalkOf(tab).overhang_num = OpSum(ct, {"S"})
         /\ \A j \in 1..Len(post) :
              post[j][1] = "S" =>
                /\ WalkPrefix(tab, j).query_end
                     = WalkPrefix(tab, j - 1).query_end
                /\ WalkPrefix(tab, j).subject_end
                     = WalkPrefix(tab, j - 1).subject_end

\* a processed record with a leading and a trailing soft clip
C13_Witness ==
  /\ pc = "reading"
  /\ \E k \in 1..Len(lines_read) :
       LET ct == CigarTabOf(lines_read[k]) IN
         /\ Len(ct) >= 3
         /\ ct[1][1] = "S"
         /\ ct[Len(ct)][1] = "S"
         /\ WalkOf(lines_read[k]).overhang_num = ct[1][2] + ct[Len(ct)][2]

\* ------------------------------------------------------------------------
\* C14
\* ------------------------------------------------------------------------

\* C14: for a record whose operations after the soft clipping are all M, I,
\* D or S, the walk ends with subject_end = subject_start - 1 + M + D,
\* query_end = query_start - 1 + M + I and indels = I + D
C14_CursorsAndIndels ==
  Loaded =>
    \A k \in 1..Len(StoredLines) :
      LET tab == StoredLines[k]
          post == PostClip(tab)
          w == WalkOf(tab)
      IN (\A j \in 1..Len(post) : post[j][1] \in KnownOps) =>
           /\ w.subject_start = int(tab[4]) - 1
           /\ w.subject_end = w.subject_start - 1
                + OpSum(post, {"M"}) + OpSum(post, {"D"})
           /\ w.query_end = w.query_start - 1
                + OpSum(post, {"M"}) + OpSum(post, {"I"})
           /\ w.indel_num = OpSum(post, {"I"}) + OpSum(post, {"D"})

\* the record 3S7M at position 1 was processed: subject span 0..6
C14_Witness ==
  /\ pc = "reading"
  /\ \E k \in 1..Len(lines_read) :
       /\ lines_read[k][6] = <<"3", "S", "7", "M">>
       /\ lines_read[k][4] = <<"1">>
       /\ WalkOf(lines_read[k]).subject_start = 0
       /\ WalkOf(lines_read[k]).subject_end = 6
       /\ WalkOf(lines_read[k]).query_start = 3
       /\ ref_positions_count_dict[lines_read[k][3]][7] >= 1
       /\ ref_positions_count_dict[lines_read[k][3]][8] = 0

\* ------------------------------------------------------------------------
\* C15
\* ------------------------------------------------------------------------

\* C15: an operation that is none of M, I, D, S changes no cursor and no
\* per-record counter, and raises no error
C15_OtherOperatorIgnored ==
  Loaded =>
    \A k \in 1..Len(StoredLines) :
      LET tab == StoredLines[k]
          post == PostClip(tab)
      IN \A j \in 1..Len(post) :
           post[j][1] \notin KnownOps =>
             /\ WalkPrefix(tab, j) = WalkPrefix(tab, j - 1)
             /\ WalkPrefix(tab, j).error = NoError

\* a processed record with an operation H, whose later M and D were walked
C15_Witness ==
  /\ pc = "reading"
  /\ \E k \in 1..Len(lines_read) :
       /\ PostClip(lines_read[k])[1][1] = "H"
       /\ WalkOf(lines_read[k]).mismatches_num = 1
       /\ WalkOf(lines_read[k]).indel_num = 1

\* ------------------------------------------------------------------------
\* C16
\* ------------------------------------------------------------------------

\* C16: the six running totals are natural numbers and no step decreases one
C16_TotalsMonotone ==
  [][ /\ \A i \in 1..6 : SixTotals[i] \in Nat /\ SixTotals'[i] \in Nat
      /\ \A i \in 1..6 : SixTotals'[i] >= SixTotals[i] ]_vars

\* two groups were stored and every total is positive
C16_Witness ==
  /\ pc = "reading"
  /\ total_aligned_contigs_num >= 2
  /\ \A i \in 1..6 : SixTotals[i] > 0

\* ------------------------------------------------------------------------
\* C17
\* ------------------------------------------------------------------------

\* C17: a step that reads a record changes no coverage array but the one of
\* its subject, changes neither the reference bases nor total_ref_length,
\* and raises each position of the subject's array by at most 1
C17_RecordFrame ==
  [][ Len(lines_read') = Len(lines_read) + 1 =>
        LET tab == Last(lines_read') IN
          /\ ref_seq_dict' = ref_seq_dict
          /\ total_ref_length' = total_ref_length
          /\ DOMAIN ref_positions_count_dict' = DOMAIN ref_positions_count_dict
          /\ \A ref_id \in DOMAIN ref_positions_count_dict :
               LET old == ref_positions_count_dict[ref_id]
                   new == ref_positions_count_dict'[ref_id]
               IN /\ Len(new) = Len(old)
                  /\ ref_id # tab[3] => new = old
                  /\ \A p \in 1..Len(old) :
                       new[p] >= old[p] /\ new[p] <= old[p] + 1 ]_vars

\* ------------------------------------------------------------------------
\* C11
\* ------------------------------------------------------------------------

ParseExceptions ==
  {"score threshold not in range [0,1]", "min identity not in range [0,1]",
   "quorum not in range [0.51,1]"}

\* the argument checking has raised, before any stage command was run
RejectedAtParse ==
  /\ driver_pc = "exited"
  /\ driver_exception \in ParseExceptions
  /\ return_codes = <<>>

\* C11: once the arguments are checked, a quorum outside [0.51, 1] was
\* rejected before any stage command, and a quorum inside it was not
\* rejected by the quorum check
C11_QuorumRange ==
  driver_pc \notin {"idle", "args"} =>
    /\ (args.quorum < 51 \/ args.quorum > 100) => RejectedAtParse
    /\ (args.quorum >= 51 /\ args.quorum <= 100) =>
         driver_exception # "quorum not in range [0.51,1]"

\* ------------------------------------------------------------------------
\* C18
\* ------------------------------------------------------------------------

\* C18: after the exit that follows the stage commands, a non-zero return
\* code of any stage means that no file was removed and the status is 1;
\* files are removed only when every stage returned 0 and keep_tmp is
\* unset; and --debug sets keep_tmp
C18_NoRemovalAfterFailure ==
  /\ (driver_pc = "exited" /\ Len(return_codes) = StagesNum) =>
       /\ (\E i \in 1..StagesNum : return_codes[i] # 0) =>
            (removed_files = {} /\ exit_status = 1)
       /\ removed_files # {} =>
            /\ \A i \in 1..StagesNum : return_codes[i] = 0
            /\ ~args.keep_tmp
  /\ (driver_pc \in {"main", "stages"} /\ args.debug) => args.keep_tmp

====
